---- MODULE Spec2Model ----
(***************************************************************************)
(* Model of src/app.py: the speech-evaluation pipeline of the Japanese     *)
(* pronunciation teaching tool.  One analysis run is the button handler    *)
(* (lines 456-570) with the functions it calls: analyze_audio, ask_gemini, *)
(* parse_summary and save_to_sheet.  Each blocking external call is one    *)
(* step of the run; its outcome is chosen by the environment.              *)
(*                                                                         *)
(* Text is modelled as a sequence of tokens.  The tokens are ASCII names   *)
(* for the pieces of text the code looks at:                               *)
(*   "LBL_SCORE"   the label text "sukoa" (score)            line 249      *)
(*   "LBL_CLARITY" the label text "meiryoudo" (clarity)      line 252      *)
(*   "LBL_NATURAL" the label text "nihongo-rashisa"          line 255      *)
(*   "HDR"         the summary header in lenticular brackets line 261      *)
(*   "H3"          the markdown prefix "### "                line 260      *)
(*   "HR"          the section delimiter "---"               line 263      *)
(*   "**"          the bold mark                             line 243      *)
(*   "FWCOLON"     the full-width colon                      line 244      *)
(*   ":" " " "/" "*"  the ASCII characters themselves                      *)
(*   "NL"          a line feed                                            *)
(*   "TXT"         any other run of text without the above                *)
(*   digits and the letters S A B C in both cases                          *)
(***************************************************************************)
EXTENDS Integers, Sequences, FiniteSets, TLC

VARIABLES
    pc,               \* position of the run
    target_file,      \* TRUE when a file was uploaded or recorded (line 428-451)
    tmp_path_exists,  \* the handler's temporary copy of the upload (line 463)
    converted_created,\* analyze_audio created its temporary output (line 106)
    converted_exists, \* that temporary output file is on disk
    exit_code,        \* os.system's result (line 111) as <<code>>, <<>> before the call
    recognize_calls,  \* long_running_recognize requests issued (line 132)
    response,         \* the recognition response (line 133): received, results
    res,              \* analyze_audio's return value
    model_idx,        \* index into target_models of the loop at line 225
    last_error,       \* ask_gemini's last_error (line 186)
    gen_log,          \* generate_content attempts made, in order
    report,           \* ask_gemini's return value / parse_summary's argument
    parsed,           \* parse_summary's return value
    save_calls,       \* calls of save_to_sheet
    save_result,      \* "none" before save_to_sheet returns, then "ok" or "failed"
    rows,             \* rows appended to the sheet in this run
    shown             \* what the page has rendered in this run

vars == <<pc, target_file, tmp_path_exists, converted_created, converted_exists,
          exit_code, recognize_calls, response, res, model_idx, last_error,
          gen_log, report, parsed, save_calls, save_result, rows, shown>>

(***************************************************************************)
(* Bounds of the model.                                                    *)
(***************************************************************************)
MaxSegs == 2

MaxWords == 2

MaxFrags == 3

(***************************************************************************)
(* Small helpers on sequences.                                             *)
(***************************************************************************)
MinOf(S) == CHOOSE x \in S : \A y \in S : x <= y

\* the element of a one-element set; {e(x) : x \in {v}} names the value v once
TheOnly(S) == CHOOSE x \in S : TRUE

RECURSIVE Flatten(_)
Flatten(ss) == IF ss = <<>> THEN <<>> ELSE Head(ss) \o Flatten(Tail(ss))

RECURSIVE JoinWith(_, _)
JoinWith(ss, sep) ==
    IF ss = <<>> THEN <<>>
    ELSE IF Len(ss) = 1 THEN Head(ss)
    ELSE Head(ss) \o sep \o JoinWith(Tail(ss), sep)

(***************************************************************************)
(* analyze_audio, result assembly (lines 144-172).  A confidence is kept   *)
(* in thousandths (0.8 is 800) and a start time in tenths of a second.     *)
(***************************************************************************)
Threshold == 800

Words == {"ka", "ki"}

Confs == {500, 799, 800, 1000}

Starts == {12}

Transcripts == {"konnichiwa"}

WordEntries == [word : Words, conf : Confs, start : Starts]

\* line 154: score = int(w.confidence * 100)
ConfScore(w) == (w.conf * 100) \div 1000

\* line 157 (faulty variant): the comparison written as <=
Marker_le(w) == IF w.conf <= Threshold THEN <<"WARN">> ELSE <<>>

\* line 157: marker = " WARN" if w.confidence < 0.8 else ""
Marker(w) == IF w.conf < Threshold THEN <<"WARN">> ELSE <<>>

\* line 159: f"{w.word}({score}){time_str}{marker}"
FormatWord(w) ==
    <<w.word, "(", ToString(ConfScore(w)), ")", "[", ToString(w.start), "s]">>
        \o Marker(w)

\* lines 149-153: the words of alternatives[0] of every result, in order
AllWords(results) == Flatten([i \in DOMAIN results |-> results[i].words])

NoResponse == [received |-> FALSE, results |-> <<>>]

NoRes ==
    [kind |-> "none", error |-> <<>>, main_text |-> <<>>, details |-> <<>>,
     word_data |-> <<>>]

ErrorRes(e) == [NoRes EXCEPT !.kind = "error", !.error = e]

\* lines 141-172: the value analyze_audio returns for a received response
AssembleResult_noEmptyCheck(results) ==
    LET ws == AllWords(results)
    IN  [kind |-> "ok", error |-> <<>>,
         main_text |-> [i \in DOMAIN results |-> results[i].transcript],
         details |-> JoinWith([i \in DOMAIN ws |-> FormatWord(ws[i])], <<", ">>),
         word_data |-> [i \in DOMAIN ws |->
                          [word |-> ws[i].word, conf |-> ws[i].conf,
                           start |-> ws[i].start]]]

AssembleResult(results) ==
    IF results = <<>> THEN ErrorRes(<<"NO_SPEECH">>)
    ELSE AssembleResult_noEmptyCheck(results)

(***************************************************************************)
(* The recognition responses of the bounded check: at most MaxSegs result  *)
(* segments holding at most MaxWords words in all.                         *)
(***************************************************************************)
RECURSIVE WordSeqs(_)
WordSeqs(n) ==
    IF n = 0 THEN {<<>>}
    ELSE LET shorter == WordSeqs(n - 1)
         IN  shorter \cup {Append(ws, w) : ws \in shorter, w \in WordEntries}

RECURSIVE Responses(_, _)
Responses(segs, words) ==
    IF segs = 0 THEN {<<>>}
    ELSE {<<>>} \cup
         UNION {{<<[transcript |-> t, words |-> ws]>> \o rest :
                    t \in Transcripts,
                    rest \in Responses(segs - 1, words - Len(ws))} :
                ws \in WordSeqs(words)}

\* the responses the pipeline run draws from: silence, one segment, two segments
SampleResponses ==
    {<<>>,
     <<[transcript |-> "konnichiwa",
        words |-> <<[word |-> "ka", conf |-> 1000, start |-> 12]>>]>>,
     <<[transcript |-> "konnichiwa",
        words |-> <<[word |-> "ka", conf |-> 799, start |-> 12],
                    [word |-> "ki", conf |-> 800, start |-> 12]>>],
       [transcript |-> "konnichiwa",
        words |-> <<[word |-> "ki", conf |-> 500, start |-> 12]>>]>>}

(***************************************************************************)
(* parse_summary (lines 238-274).                                          *)
(***************************************************************************)
Digits == {"0", "1", "5", "7", "8", "9"}

RatingLetters == {"S", "A", "B", "C", "s", "a", "b", "c"}

Whitespace == {" ", "NL"}

IsDigit(x) == x \in Digits

\* str.upper() on one rating letter (lines 271-272)
Upper(x) ==
    CASE x = "s" -> "S" [] x = "a" -> "A" [] x = "b" -> "B" [] x = "c" -> "C"
      [] OTHER -> x

\* lines 243-245 (faulty variant): the full-width colon is left as it is
clean_text_keepsWideColon(t) ==
    SelectSeq(SelectSeq(t, LAMBDA x : x # "**"), LAMBDA x : x # " ")

\* lines 243-245: drop "**", unify the colon, drop ASCII spaces
clean_text(t) ==
    LET noBold == SelectSeq(t, LAMBDA x : x # "**")
        colon  == [i \in DOMAIN noBold |->
                      IF noBold[i] = "FWCOLON" THEN ":" ELSE noBold[i]]
    IN  SelectSeq(colon, LAMBDA x : x # " ")

\* re.search(label .*? ":" .*? (class)) on a text t (lines 249, 252, 255).
\* "." does not match a line feed, so the label, the colon and the group lie
\* on one line.  From a label at i the first lazy gap stops at the nearest
\* colon of the line and the second at the nearest class token after it; when
\* that fails no later colon of the line succeeds either (a class token after
\* a later colon is also after the first one).

\* the index of the first line feed after i, Len(t) + 1 when there is none
LineEnd(t, i) ==
    TheOnly({IF nls = {} THEN Len(t) + 1 ELSE MinOf(nls) :
                nls \in {{m \in (i + 1)..Len(t) : t[m] = "NL"}}})

\* the least index in lo..hi whose token is in class, 0 when there is none
FirstAt(t, lo, hi, class) ==
    TheOnly({IF hits = {} THEN 0 ELSE MinOf(hits) :
                hits \in {{k \in lo..hi : t[k] \in class}}})

\* where group 1 starts for a match that begins with the label at i, 0 for none
MatchFrom(t, i, class) ==
    TheOnly({TheOnly({IF j = 0 THEN 0 ELSE FirstAt(t, j + 1, e - 1, class) :
                         j \in {FirstAt(t, i + 1, e - 1, {":"})}}) :
                e \in {LineEnd(t, i)}})

\* re.search tries the start positions from the left: the leftmost label that
\* has a match decides.  The index where group 1 starts, 0 when nothing matches.
GroupStart(t, label, class) ==
    TheOnly({IF ms = {} THEN 0 ELSE MatchFrom(t, MinOf(ms), class) :
                ms \in {{i \in DOMAIN t :
                            t[i] = label /\ MatchFrom(t, i, class) # 0}}})

\* group 1 of (\d{1,3}) starting at k: greedy, at most three digits
DigitRun(t, k) ==
    LET n == IF k + 1 <= Len(t) /\ IsDigit(t[k + 1])
             THEN (IF k + 2 <= Len(t) /\ IsDigit(t[k + 2]) THEN 3 ELSE 2)
             ELSE 1
    IN  SubSeq(t, k, k + n - 1)

\* lines 249, 270
ScoreOf(clean) ==
    LET k == GroupStart(clean, "LBL_SCORE", Digits)
    IN  IF k = 0 THEN <<"0">> ELSE DigitRun(clean, k)

\* lines 252, 255, 271, 272
RatingOf(clean, label) ==
    LET k == GroupStart(clean, label, RatingLetters)
    IN  IF k = 0 THEN "-" ELSE Upper(clean[k])

\* str.find(pat, from): the least index >= from where pat starts, 0 for -1
Find(t, pat, from) ==
    LET hits == {i \in from..(Len(t) - Len(pat) + 1) :
                    SubSeq(t, i, i + Len(pat) - 1) = pat}
    IN  IF hits = {} THEN 0 ELSE MinOf(hits)

\* str.strip()
RECURSIVE Strip(_)
Strip(t) ==
    IF t = <<>> THEN t
    ELSE IF Head(t) \in Whitespace THEN Strip(Tail(t))
    ELSE IF t[Len(t)] \in Whitespace THEN Strip(SubSeq(t, 1, Len(t) - 1))
    ELSE t

\* lines 258-267.  When the header is missing, start is -1 and find("---", -1)
\* looks at the last character only, where three characters cannot match.
SummaryBlock(t) ==
    LET s1    == Find(t, <<"H3", "HDR">>, 1)
        start == IF s1 = 0 THEN Find(t, <<"HDR">>, 1) ELSE s1
        end   == IF start = 0 THEN 0 ELSE Find(t, <<"HR">>, start)
    IN  IF start # 0 /\ end # 0 THEN Strip(SubSeq(t, start, end - 1))
        ELSE <<"SUMMARY_FAILED">>

\* lines 243-274.  clean_text is computed once (it is bound as the element of
\* a one-element set) and the three searches read that one value.
parse_summary(report_text) ==
    LET Fields(clean) ==
            [score |-> ScoreOf(clean),
             clarity |-> RatingOf(clean, "LBL_CLARITY"),
             naturalness |-> RatingOf(clean, "LBL_NATURAL"),
             summary_text |-> SummaryBlock(report_text)]
    IN  CHOOSE r \in {Fields(clean) : clean \in {clean_text(report_text)}} : TRUE

NoParsed ==
    [score |-> <<>>, clarity |-> "", naturalness |-> "", summary_text |-> <<>>]

(***************************************************************************)
(* Report texts.  A report is a sequence of lines joined by line feeds.    *)
(***************************************************************************)
L_header3   == <<"H3", "HDR">>

L_header    == <<"HDR">>

L_score87   ==
    <<"*", " ", "**", "TXT", "LBL_SCORE", "**", "FWCOLON", " ",
      "8", "7", " ", "/", " ", "1", "0", "0">>

L_score150  == <<"LBL_SCORE", ":", " ", "1", "5", "0">>

L_scoreNone == <<"LBL_SCORE", "FWCOLON", " ", "TXT">>

L_clarityA  == <<"*", " ", "**", "LBL_CLARITY", "**", "FWCOLON", " ", "A">>

L_clarityb  == <<"LBL_CLARITY", ":", "b">>

L_naturalS  == <<"*", " ", "**", "LBL_NATURAL", "**", "FWCOLON", " ", "S">>

L_rule      == <<"HR">>

L_text      == <<"TXT", " ", "9", "C", ":">>

Lines ==
    {L_header3, L_header, L_score87, L_score150, L_scoreNone, L_clarityA,
     L_clarityb, L_naturalS, L_rule, L_text}

ReportOf(ls) == JoinWith(ls, <<"NL">>)

RECURSIVE LineSeqs(_)
LineSeqs(n) ==
    IF n = 0 THEN {<<>>}
    ELSE LET shorter == LineSeqs(n - 1)
         IN  shorter \cup {Append(ls, l) : ls \in shorter, l \in Lines}

\* what the generation service answers in the pipeline run: a report in the
\* requested layout, a report whose layout drifted, and an empty text
SampleReports ==
    {ReportOf(<<L_header3, L_score87, L_clarityA, L_naturalS, L_rule, L_text>>),
     ReportOf(<<L_text, L_clarityb>>),
     <<>>}

(***************************************************************************)
(* ask_gemini (lines 175-235).                                             *)
(***************************************************************************)
target_models ==
    <<"gemini-2.0-flash", "gemini-2.0-flash-lite", "gemini-1.5-flash", "gemini-pro">>

ErrMsgs == {"e_quota", "e_not_found"}

\* line 225 (faulty variant): the list walked from its end
Candidate_reversed(idx) == target_models[Len(target_models) + 1 - idx]

\* line 225: for model_name in target_models
Candidate(idx) == target_models[idx]

\* line 232 (faulty variant): only the first exception is kept
NextLastError_keepsFirst(prev, e) == IF prev = "None" THEN e ELSE prev

\* line 232: last_error = e
NextLastError(prev, e) == e

\* line 235: the string returned when every model failed
ErrorString(e) == <<"ERR_MARK", "GEMINI_ALL_FAILED", ":", " ", e>>

(***************************************************************************)
(* save_to_sheet (lines 277-310): what it does for each behaviour of the   *)
(* spreadsheet service.  raised says whether an exception leaves the       *)
(* function; appended says whether a row reached the sheet.                *)
(***************************************************************************)
SheetOutcomes == {"ok", "no_url", "auth_error", "append_error", "append_reply_lost"}

\* lines 279-310 (faulty variant): without the try/except
save_to_sheet_noExcept(outcome) ==
    [ok       |-> outcome = "ok",
     raised   |-> outcome \in {"auth_error", "append_error", "append_reply_lost"},
     appended |-> outcome \in {"ok", "append_reply_lost"}]

save_to_sheet(outcome) ==
    [ok       |-> outcome = "ok",
     raised   |-> FALSE,
     appended |-> outcome \in {"ok", "append_reply_lost"}]

(***************************************************************************)
(* The analysis run: the button handler (lines 456-570) and analyze_audio  *)
(* (lines 95-172).                                                         *)
(***************************************************************************)
ExitCodes == {0, 256, 32512}

\* line 113 (faulty variant): only a negative status counts as a failure
TranscodeFailed_negativeOnly(code) == code < 0

\* line 113: if exit_code != 0
TranscodeFailed(code) == code # 0

\* line 520 (faulty variant): the row is logged whatever the score
ShouldSave_always(p) == TRUE

\* line 520: if parsed["score"] != "0"
ShouldSave(p) == p.score # <<"0">>

Init ==
    /\ pc = "clicked"
    /\ target_file \in BOOLEAN
    /\ tmp_path_exists = FALSE
    /\ converted_created = FALSE
    /\ converted_exists = FALSE
    /\ exit_code = <<>>
    /\ recognize_calls = 0
    /\ response = NoResponse
    /\ res = NoRes
    /\ model_idx = 1
    /\ last_error = "None"
    /\ gen_log = <<>>
    /\ report = <<>>
    /\ parsed = NoParsed
    /\ save_calls = 0
    /\ save_result = "none"
    /\ rows = 0
    /\ shown = {}

\* lines 457-458: no file chosen, a warning and nothing else
ClickWithoutFile ==
    /\ pc = "clicked" /\ ~target_file
    /\ shown' = shown \cup {"warn_no_file"}
    /\ pc' = "done"
    /\ UNCHANGED <<target_file, tmp_path_exists, converted_created,
                   converted_exists, exit_code, recognize_calls, response, res,
                   model_idx, last_error, gen_log, report, parsed, save_calls,
                   save_result, rows>>

\* lines 460-468: the upload is written to a temporary file, analyze_audio starts
SaveUpload ==
    /\ pc = "clicked" /\ target_file
    /\ tmp_path_exists' = TRUE
    /\ pc' = "aa_auth"
    /\ UNCHANGED <<target_file, converted_created, converted_exists, exit_code,
                   recognize_calls, response, res, model_idx, last_error,
                   gen_log, report, parsed, save_calls, save_result, rows, shown>>

\* lines 97-103: the speech client is built, or analyze_audio returns an error
AnalyzeAuth ==
    /\ pc = "aa_auth"
    /\ \E ok \in BOOLEAN :
          IF ok THEN /\ pc' = "aa_tempfile"
                     /\ res' = res
          ELSE /\ pc' = "h_cleanup"
               /\ res' = ErrorRes(<<"AUTH_ERROR", "e_credentials">>)
    /\ UNCHANGED <<target_file, tmp_path_exists, converted_created,
                   converted_exists, exit_code, recognize_calls, response,
                   model_idx, last_error, gen_log, report, parsed, save_calls,
                   save_result, rows, shown>>

\* lines 106-107: NamedTemporaryFile(delete=False) leaves an empty file behind
CreateConverted ==
    /\ pc = "aa_tempfile"
    /\ converted_created' = TRUE
    /\ converted_exists' = TRUE
    /\ pc' = "aa_ffmpeg"
    /\ UNCHANGED <<target_file, tmp_path_exists, exit_code, recognize_calls,
                   response, res, model_idx, last_error, gen_log, report,
                   parsed, save_calls, save_result, rows, shown>>

\* lines 110-114: the transcoder runs; a non-zero status returns at once
Transcode ==
    /\ pc = "aa_ffmpeg"
    /\ \E code \in ExitCodes :
          /\ exit_code' = <<code>>
          /\ IF TranscodeFailed(code)
             THEN /\ res' = ErrorRes(<<"CONVERT_ERROR">>)
                  /\ pc' = "h_cleanup"
             ELSE /\ res' = res
                  /\ pc' = "aa_recognize"
    /\ UNCHANGED <<target_file, tmp_path_exists, converted_created,
                   converted_exists, recognize_calls, response, model_idx,
                   last_error, gen_log, report, parsed, save_calls, save_result,
                   rows, shown>>

\* lines 117-139: read the file, issue the request, wait for the result; the
\* finally clause removes the converted file whatever happened
Recognize ==
    /\ pc = "aa_recognize"
    /\ converted_exists' = FALSE
    /\ \/ /\ recognize_calls' = recognize_calls
          /\ response' = response
          /\ res' = ErrorRes(<<"RECOGNITION_ERROR", "e_read">>)
          /\ pc' = "h_cleanup"
       \/ /\ recognize_calls' = recognize_calls + 1
          /\ response' = response
          /\ \E e \in {"e_service", "e_timeout"} :
                res' = ErrorRes(<<"RECOGNITION_ERROR", e>>)
          /\ pc' = "h_cleanup"
       \/ /\ recognize_calls' = recognize_calls + 1
          /\ \E results \in SampleResponses :
                response' = [received |-> TRUE, results |-> results]
          /\ res' = res
          /\ pc' = "aa_assemble"
    /\ UNCHANGED <<target_file, tmp_path_exists, converted_created, exit_code,
                   model_idx, last_error, gen_log, report, parsed, save_calls,
                   save_result, rows, shown>>

\* lines 141-172: the empty-result check and the result assembly
Assemble ==
    /\ pc = "aa_assemble"
    /\ res' = AssembleResult(response.results)
    /\ pc' = "h_cleanup"
    /\ UNCHANGED <<target_file, tmp_path_exists, converted_created,
                   converted_exists, exit_code, recognize_calls, response,
                   model_idx, last_error, gen_log, report, parsed, save_calls,
                   save_result, rows, shown>>

\* lines 471-500: the upload copy is removed; an error result ends the run,
\* a transcript is rendered with the player and the word details
HandlerAfterAnalyze ==
    /\ pc = "h_cleanup"
    /\ tmp_path_exists' = FALSE
    /\ IF res.kind = "error"
       THEN /\ shown' = shown \cup {"error", "hint"}
            /\ pc' = "done"
       ELSE /\ shown' = shown \cup {"success", "player", "transcript", "details"}
            /\ pc' = "gemini"
    /\ UNCHANGED <<target_file, converted_created, converted_exists, exit_code,
                   recognize_calls, response, res, model_idx, last_error,
                   gen_log, report, parsed, save_calls, save_result, rows>>

\* lines 225-233: one turn of the loop over target_models
GeminiTry ==
    /\ pc = "gemini" /\ model_idx <= Len(target_models)
    /\ \/ \E text \in SampleReports :
             /\ gen_log' = Append(gen_log,
                    [model |-> Candidate(model_idx), ok |-> TRUE,
                     text |-> text, msg |-> ""])
             /\ report' = text
             /\ pc' = "display"
             /\ UNCHANGED <<model_idx, last_error>>
       \/ \E e \in ErrMsgs :
             /\ gen_log' = Append(gen_log,
                    [model |-> Candidate(model_idx), ok |-> FALSE,
                     text |-> <<>>, msg |-> e])
             /\ last_error' = NextLastError(last_error, e)
             /\ model_idx' = model_idx + 1
             /\ UNCHANGED <<report, pc>>
    /\ UNCHANGED <<target_file, tmp_path_exists, converted_created,
                   converted_exists, exit_code, recognize_calls, response, res,
                   parsed, save_calls, save_result, rows, shown>>

\* line 235: every model raised
GeminiExhausted ==
    /\ pc = "gemini" /\ model_idx > Len(target_models)
    /\ report' = ErrorString(last_error)
    /\ pc' = "display"
    /\ UNCHANGED <<target_file, tmp_path_exists, converted_created,
                   converted_exists, exit_code, recognize_calls, response, res,
                   model_idx, last_error, gen_log, parsed, save_calls, save_result,
                   rows, shown>>

\* lines 513-520, 537-538: the report is rendered and parsed
DisplayReport ==
    /\ pc = "display"
    /\ LET p == parse_summary(report)
       IN  /\ parsed' = p
           /\ IF ShouldSave(p)
              THEN /\ shown' = shown \cup {"report"}
                   /\ pc' = "save"
              ELSE /\ shown' = shown \cup {"report", "warn_extract"}
                   /\ pc' = "download"
    /\ UNCHANGED <<target_file, tmp_path_exists, converted_created,
                   converted_exists, exit_code, recognize_calls, response, res,
                   model_idx, last_error, gen_log, report, save_calls, save_result,
                   rows>>

\* lines 521-536: one call of save_to_sheet and the message that follows it
SaveToSheet ==
    /\ pc = "save"
    /\ \E outcome \in SheetOutcomes :
          LET r == save_to_sheet(outcome)
          IN  /\ save_calls' = save_calls + 1
              /\ rows' = IF r.appended THEN rows + 1 ELSE rows
              /\ IF r.raised
                 THEN /\ pc' = "crashed"
                      /\ UNCHANGED <<save_result, shown>>
                 ELSE /\ save_result' = IF r.ok THEN "ok" ELSE "failed"
                      /\ shown' = shown \cup
                            {IF r.ok THEN "toast_saved" ELSE "warn_save"}
                      /\ pc' = "download"
    /\ UNCHANGED <<target_file, tmp_path_exists, converted_created,
                   converted_exists, exit_code, recognize_calls, response, res,
                   model_idx, last_error, gen_log, report, parsed>>

\* lines 540-570: the download button
OfferDownload ==
    /\ pc = "download"
    /\ shown' = shown \cup {"download"}
    /\ pc' = "done"
    /\ UNCHANGED <<target_file, tmp_path_exists, converted_created,
                   converted_exists, exit_code, recognize_calls, response, res,
                   model_idx, last_error, gen_log, report, parsed, save_calls,
                   save_result, rows>>

Next ==
    \/ ClickWithoutFile
    \/ SaveUpload
    \/ AnalyzeAuth
    \/ CreateConverted
    \/ Transcode
    \/ Recognize
    \/ Assemble
    \/ HandlerAfterAnalyze
    \/ GeminiTry
    \/ GeminiExhausted
    \/ DisplayReport
    \/ SaveToSheet
    \/ OfferDownload

Spec == Init /\ [][Next]_vars

\* the run is one synchronous script: a step that can be taken is taken
FairSpec == Spec /\ WF_vars(Next)

(***************************************************************************)
(* The result assembly on every response within the bounds: the run taken  *)
(* at the point where the recognition request has returned (line 133).     *)
(***************************************************************************)
InitFormat ==
    /\ pc = "aa_assemble"
    /\ target_file = TRUE
    /\ tmp_path_exists = TRUE
    /\ converted_created = TRUE
    /\ converted_exists = FALSE
    /\ exit_code = <<0>>
    /\ recognize_calls = 1
    /\ \E results \in Responses(MaxSegs, MaxWords) :
          response = [received |-> TRUE, results |-> results]
    /\ res = NoRes
    /\ model_idx = 1
    /\ last_error = "None"
    /\ gen_log = <<>>
    /\ report = <<>>
    /\ parsed = NoParsed
    /\ save_calls = 0
    /\ save_result = "none"
    /\ rows = 0
    /\ shown = {}

NextFormat == Assemble

SpecFormat == InitFormat /\ [][NextFormat]_vars

(***************************************************************************)
(* parse_summary on every report of at most MaxFrags lines: the run taken  *)
(* at the point where ask_gemini has returned the report (line 510).       *)
(***************************************************************************)
InitParse ==
    /\ pc = "display"
    /\ target_file = TRUE
    /\ tmp_path_exists = FALSE
    /\ converted_created = TRUE
    /\ converted_exists = FALSE
    /\ exit_code = <<0>>
    /\ recognize_calls = 1
    /\ response =
          [received |-> TRUE,
           results |-> <<[transcript |-> "konnichiwa",
                          words |-> <<[word |-> "ka", conf |-> 1000,
                                       start |-> 12]>>]>>]
    /\ res = AssembleResult(response.results)
    /\ model_idx = 1
    /\ last_error = "None"
    /\ \E ls \in LineSeqs(MaxFrags) : report = ReportOf(ls)
    /\ gen_log = <<[model |-> Candidate(1), ok |-> TRUE, text |-> report,
                    msg |-> ""]>>
    /\ parsed = NoParsed
    /\ save_calls = 0
    /\ save_result = "none"
    /\ rows = 0
    /\ shown = {"success", "player", "transcript", "details"}

NextParse == DisplayReport

SpecParse == InitParse /\ [][NextParse]_vars

(***************************************************************************)
(* Properties.                                                             *)
(***************************************************************************)
Range(t) == {t[i] : i \in DOMAIN t}

\* t cut at every sep token; the empty text has no piece
RECURSIVE SplitOn(_, _)
SplitOn(t, sep) ==
    IF t = <<>> THEN <<>>
    ELSE LET cuts == {i \in DOMAIN t : t[i] = sep}
         IN  IF cuts = {} THEN <<t>>
             ELSE LET c == MinOf(cuts)
                  IN  <<SubSeq(t, 1, c - 1)>> \o
                      (IF c = Len(t) THEN <<<<>>>>
                       ELSE SplitOn(SubSeq(t, c + 1, Len(t)), sep))

RemoveAt(t, i) == SubSeq(t, 1, i - 1) \o SubSeq(t, i + 1, Len(t))

\* analyze_audio has returned
AnalyzeReturned == res.kind # "none"

\* ask_gemini has returned
GeminiReturned == pc \in {"display", "save", "download", "done", "crashed"}

AllCandidatesFailed ==
    /\ Len(gen_log) = Len(target_models)
    /\ \A i \in DOMAIN gen_log : ~gen_log[i].ok

\* C1: whenever analyze_audio has returned after creating its temporary output
\* file, that file no longer exists.
C1_ConvertedFileGoneOnReturn ==
    (AnalyzeReturned /\ converted_created) => ~converted_exists

\* C2: when the transcoder exits with a non-zero status, no recognition request
\* is ever issued in the run and analyze_audio returns the conversion error.
C2_RejectedNeverRecognized ==
    (exit_code # <<>> /\ exit_code[1] # 0) =>
        /\ recognize_calls = 0
        /\ res = ErrorRes(<<"CONVERT_ERROR">>)
        /\ pc \in {"h_cleanup", "done"}

C2_Witness ==
    /\ pc = "done"
    /\ exit_code = <<256>>
    /\ "error" \in shown

\* C3: when the recognition response has an empty result list, the run ends
\* with the recognition-not-possible error, and ask_gemini and save_to_sheet
\* are never called and the download button is never offered.
C3_EmptyResultHalts ==
    (response.received /\ response.results = <<>>) =>
        /\ pc \in {"aa_assemble", "h_cleanup", "done"}
        /\ AnalyzeReturned => res = ErrorRes(<<"NO_SPEECH">>)
        /\ pc = "done" => "error" \in shown
        /\ gen_log = <<>>
        /\ save_calls = 0
        /\ rows = 0
        /\ "download" \notin shown
        /\ "report" \notin shown

C3_Witness ==
    /\ pc = "done"
    /\ response.received
    /\ response.results = <<>>

\* C4: ask_gemini tries the model identifiers in list order, tries none after a
\* success, and returns the text of the candidate that succeeded; with the
\* first N-1 raising and the last succeeding the last one's text is returned.
C4_FallbackInOrder ==
    /\ Len(gen_log) <= Len(target_models)
    /\ \A i \in DOMAIN gen_log :
          /\ gen_log[i].model = target_models[i]
          /\ i < Len(gen_log) => ~gen_log[i].ok
    /\ (gen_log # <<>> /\ gen_log[Len(gen_log)].ok) =>
          /\ GeminiReturned
          /\ pc # "crashed"
          /\ report = gen_log[Len(gen_log)].text
    /\ (pc = "gemini") => (\A i \in DOMAIN gen_log : ~gen_log[i].ok)

C4_Witness ==
    /\ pc = "done"
    /\ Len(gen_log) = Len(target_models)
    /\ gen_log[Len(gen_log)].ok
    /\ report = gen_log[Len(gen_log)].text
    /\ report # <<>>

\* C5: when every model identifier raises, ask_gemini returns a string that
\* holds the error indicator and the message of the last exception, and no
\* message of an earlier candidate that differs from it.
C5_AllFailedReturnsLastError ==
    (GeminiReturned /\ AllCandidatesFailed) =>
        /\ pc # "crashed"
        /\ report # <<>>
        /\ report[1] = "ERR_MARK"
        /\ gen_log[Len(gen_log)].msg \in Range(report)
        /\ \A i \in DOMAIN gen_log :
              gen_log[i].msg # gen_log[Len(gen_log)].msg =>
                  gen_log[i].msg \notin Range(report)

C5_Witness ==
    /\ pc = "done"
    /\ AllCandidatesFailed
    /\ gen_log[1].msg # gen_log[Len(gen_log)].msg

\* C6: once analyze_audio has returned a transcript, the run reaches the point
\* where the report is displayed and the download button is offered.
C6_TranscriptLeadsToDownload ==
    (res.kind = "ok") ~> ({"report", "download"} \subseteq shown /\ pc = "done")

C6_Witness ==
    /\ pc = "done"
    /\ res.kind = "ok"
    /\ AllCandidatesFailed
    /\ parsed.score = <<"0">>
    /\ {"report", "warn_extract", "download"} \subseteq shown

\* C7: save_to_sheet is called once when the extracted score is not "0" and
\* not at all when it is; a failed append is a warning and is not retried, and
\* at most one row is appended in a run.
C7_SaveOnceIffScore ==
    /\ save_calls <= 1
    /\ rows <= save_calls
    /\ (pc \in {"download", "done"} /\ res.kind = "ok") =>
          save_calls = (IF parsed.score # <<"0">> THEN 1 ELSE 0)
    /\ pc = "save" => (save_calls = 0 /\ parsed.score # <<"0">>)
    /\ save_result = "failed" => ("warn_save" \in shown /\ "toast_saved" \notin shown)
    /\ save_calls = 1 => save_result # "none"

C7_Witness ==
    /\ pc = "done"
    /\ save_calls = 1
    /\ save_result = "failed"
    /\ rows = 0
    /\ "warn_save" \in shown

DigitValue(d) ==
    CASE d = "0" -> 0 [] d = "1" -> 1 [] d = "5" -> 5 [] d = "7" -> 7
      [] d = "8" -> 8 [] d = "9" -> 9

RECURSIVE ScoreValue(_)
ScoreValue(ds) ==
    IF ds = <<>> THEN 0
    ELSE 10 * ScoreValue(SubSeq(ds, 1, Len(ds) - 1)) + DigitValue(ds[Len(ds)])

SummaryParsed == pc \in {"save", "download"} /\ parsed # NoParsed

\* C8: for every report text the score parse_summary returns is an integer
\* from 0 to 100 and both ratings are one of S, A, B, C or "-".
C8_ScoreAndRatingsInDomain ==
    SummaryParsed =>
        /\ ScoreValue(parsed.score) \in 0..100
        /\ parsed.clarity \in {"S", "A", "B", "C", "-"}
        /\ parsed.naturalness \in {"S", "A", "B", "C", "-"}

\* the lines of the report, and the first line holding the score label
ReportLines == SplitOn(report, "NL")

FirstScoreLine ==
    LET ls == ReportLines
        at == {i \in DOMAIN ls : "LBL_SCORE" \in Range(ls[i])}
    IN  IF at = {} THEN <<>> ELSE ls[MinOf(at)]

\* C9: parse_summary returns a value for every report; the score line with
\* 87 / 100 yields "87"; a field whose label is absent takes its sentinel; and
\* taking a line away changes no field whose label is not on that line.
C9_IndependentTolerantSearches ==
    SummaryParsed =>
        /\ DOMAIN parsed = {"score", "clarity", "naturalness", "summary_text"}
        /\ FirstScoreLine = L_score87 => parsed.score = <<"8", "7">>
        /\ "LBL_SCORE" \notin Range(report) => parsed.score = <<"0">>
        /\ "LBL_CLARITY" \notin Range(report) => parsed.clarity = "-"
        /\ "LBL_NATURAL" \notin Range(report) => parsed.naturalness = "-"
        /\ "HDR" \notin Range(report) => parsed.summary_text = <<"SUMMARY_FAILED">>
        /\ \A i \in DOMAIN ReportLines :
              LET line == Range(ReportLines[i])
                  less == parse_summary(ReportOf(RemoveAt(ReportLines, i)))
              IN  /\ "LBL_SCORE" \notin line => less.score = parsed.score
                  /\ "LBL_CLARITY" \notin line => less.clarity = parsed.clarity
                  /\ "LBL_NATURAL" \notin line =>
                        less.naturalness = parsed.naturalness
                  /\ ("HDR" \notin line /\ "HR" \notin line) =>
                        ((less.summary_text = <<"SUMMARY_FAILED">>) <=>
                         (parsed.summary_text = <<"SUMMARY_FAILED">>))

C9_Witness ==
    /\ SummaryParsed
    /\ FirstScoreLine = L_score87
    /\ parsed.score = <<"8", "7">>
    /\ parsed.clarity = "-"
    /\ parsed.naturalness = "S"
    /\ parsed.summary_text = <<"SUMMARY_FAILED">>

\* C10: in the detail string the entry of a word carries the warning marker
\* exactly when the word's confidence is below 0.8, and the word list holds
\* every word of every result segment in the order of the response.
C10_MarkerIffBelowThreshold ==
    (pc = "h_cleanup" /\ res.kind = "ok") =>
        LET ws == Flatten([i \in DOMAIN response.results |->
                              response.results[i].words])
            entries == SplitOn(res.details, ", ")
        IN  /\ Len(entries) = Len(ws)
            /\ Len(res.word_data) = Len(ws)
            /\ \A i \in DOMAIN ws :
                  /\ entries[i][1] = ws[i].word
                  /\ ("WARN" \in Range(entries[i])) <=> (ws[i].conf < 800)
                  /\ res.word_data[i].word = ws[i].word
                  /\ res.word_data[i].conf = ws[i].conf
                  /\ res.word_data[i].start = ws[i].start

C10_Witness ==
    /\ pc = "h_cleanup"
    /\ res.kind = "ok"
    /\ Len(response.results) = 2
    /\ Len(res.word_data) = 2
    /\ res.word_data[1].conf = 800
    /\ res.word_data[2].conf = 799
    /\ Len(response.results[1].words) = 1

====
